---- MODULE Spec2Model ----
(***************************************************************************)
(* Model of python/ineq_functions/andrews_kwon.py: the bootstrap-based     *)
(* SPUR1 inference functions std_b_vec, tn_star, an_star, an_vec and       *)
(* cvalue_SPUR1.                                                           *)
(*                                                                         *)
(* Numbers.  Floating point values are modelled in fixed point.  A moment  *)
(* value is an integer count of quanta, one quantum being iota (1e-6), so  *)
(* that the floor iota is the integer Iota = 1.  Dimensionless multipliers *)
(* (sqrt(n), kappa_n, tau_n, alpha, the auxiliary statistic) are integers  *)
(* in hundredths.  +infinity is the value Inf, absorbing under addition.   *)
(*                                                                         *)
(* Optional arguments.  Python's None is the empty sequence; a supplied    *)
(* value v is the one-element sequence <<v>>.                              *)
(*                                                                         *)
(* A behaviour is one experiment: Init fixes the data arguments of one     *)
(* function, and each step is one call of that function under some         *)
(* bootstrap configuration.  rng is numpy's process-wide generator.        *)
(***************************************************************************)
EXTENDS Integers, Sequences, FiniteSets, TLC

VARIABLES fn, X_data, bidx, par, rng, last

vars == <<fn, X_data, bidx, par, rng, last>>

(* ---------------- bounds ---------------- *)
NObs == 2
KMom == 2
MaxB == 3

(* ---------------- numbers ---------------- *)
None == <<>>

Iota == 1

Inf == 1000000000

(* fixed-point scale of the dimensionless multipliers *)
Hundred == 10 * 10

Add(a, b) == IF a = Inf \/ b = Inf THEN Inf ELSE a + b

Min2(a, b) == IF a <= b THEN a ELSE b

Max2(a, b) == IF a >= b THEN a ELSE b

RECURSIVE ISqrtBetween(_, _, _)
ISqrtBetween(x, lo, hi) ==
  IF lo >= hi THEN lo
  ELSE LET mid == (lo + hi + 1) \div 2
       IN IF mid * mid <= x THEN ISqrtBetween(x, mid, hi)
          ELSE ISqrtBetween(x, lo, mid - 1)

ISqrt(x) == ISqrtBetween(x, 0, Min2(x, 40000))

RECURSIVE SeqSum(_)
SeqSum(s) == IF s = <<>> THEN 0 ELSE Head(s) + SeqSum(Tail(s))

RECURSIVE SeqMin(_)
SeqMin(s) == IF Len(s) = 1 THEN s[1] ELSE Min2(Head(s), SeqMin(Tail(s)))

RECURSIVE SeqMax(_)
SeqMax(s) == IF Len(s) = 1 THEN s[1] ELSE Max2(Head(s), SeqMax(Tail(s)))

Column(M, j) == [b \in 1..Len(M) |-> M[b][j]]

NCols(M) == Len(M[1])

(* np.sqrt(n), in hundredths *)
SqrtN(n) == ISqrt(n * Hundred * Hundred)

(* np.log(n), in hundredths *)
LogN(n) == <<0, 69, 110, 139, 161, 179, 195, 208>>[n]

(* np.sqrt(np.log(n)), in hundredths *)
KappaN(n) == ISqrt(LogN(n) * Hundred)

(* sqrt(n) * x for a value x in quanta *)
ScaleSqrtN(n, x) == (SqrtN(n) * x) \div Hundred

(* variant: the floor is not applied *)
ClipMinIota_unfloored(x) == x

(* v.clip(max=0) and v.clip(min=iota) on one entry *)
ClipMinIota(x) == Max2(x, Iota)

ClipMax0(x) == Min2(x, 0)

(* np.std over a vector (population standard deviation) *)
Std(v) ==
  LET B == Len(v)
      s == SeqSum(v)
      sq == SeqSum([b \in 1..B |-> v[b] * v[b]])
  IN ISqrt(B * sq - s * s) \div B

(* ---------------- error values ---------------- *)
ConfigError == "ValueError: bootstrap_replications must be specified if bootstrap_indices is not."

NoneShapeError == "TypeError: 'NoneType' object cannot be interpreted as an integer"

ZeroSizeError == "ValueError: zero-size array to reduction operation minimum which has no identity"

(* ---------------- the random generator ---------------- *)
RngStates == 0..4

RngStep(s) == (s + 2) % Cardinality(RngStates)

RECURSIVE RngAfter(_, _)
RngAfter(s, t) == IF t = 0 THEN s ELSE RngAfter(RngStep(s), t - 1)

(* np.random.seed(rng_seed) *)
Seed(rng_seed) == rng_seed % Cardinality(RngStates)

(* np.random.randint(0, n, size=(B, n)): the matrix drawn from state s *)
Randint(s, B, n) ==
  [b \in 1..B |-> [i \in 1..n |-> (RngAfter(s, (b - 1) * n + i) \div 2) % n]]

RandintState(s, B, n) == RngAfter(s, B * n)

(* variant: a replication count, when given, makes the block draw new
   indices although an index matrix was supplied *)
ObtainIndices_redraw(n, bootstrap_replications, rng_seed, bootstrap_indices, g) ==
  IF bootstrap_replications # None
  THEN LET s == IF rng_seed # None THEN Seed(rng_seed[1]) ELSE g
       IN [err |-> "", idx |-> Randint(s, bootstrap_replications[1], n),
           rng |-> RandintState(s, bootstrap_replications[1], n)]
  ELSE IF bootstrap_indices = None
  THEN [err |-> ConfigError, idx |-> <<>>, rng |-> g]
  ELSE [err |-> "", idx |-> bootstrap_indices[1], rng |-> g]

(* "Obtain random numbers for the bootstrap": the block every bootstrap
   function starts with.  Yields the index matrix used and the generator
   state afterwards, or the configuration error. *)
ObtainIndices(n, bootstrap_replications, rng_seed, bootstrap_indices, g) ==
  IF bootstrap_indices = None
  THEN IF bootstrap_replications = None
       THEN [err |-> ConfigError, idx |-> <<>>, rng |-> g]
       ELSE LET s == IF rng_seed # None THEN Seed(rng_seed[1]) ELSE g
            IN [err |-> "", idx |-> Randint(s, bootstrap_replications[1], n),
                rng |-> RandintState(s, bootstrap_replications[1], n)]
  ELSE [err |-> "", idx |-> bootstrap_indices[1], rng |-> g]

(* ---------------- MomentSource (moment.py) ---------------- *)
(* m_hat(X, axis=0): the per-column minimum-style aggregate *)
m_hat(X) == [j \in 1..NCols(X) |-> SeqMin(Column(X, j))]

(* X_data[bootstrap_indices, :] for one replication row (0-based indices) *)
Resample(X, row) == [i \in 1..Len(row) |-> X[row[i] + 1]]

(* m_hat(X_data[bootstrap_indices, :], axis=1): B x k *)
m_hat_star(X, idx) == [b \in 1..Len(idx) |-> m_hat(Resample(X, idx[b]))]

(* ---------------- std_b_vec ---------------- *)
StdRows(n, mhat_star_vec) ==
  LET B == Len(mhat_star_vec)
      k == NCols(mhat_star_vec)
      mhat_star_clip == [b \in 1..B |-> [j \in 1..k |-> ClipMax0(mhat_star_vec[b][j])]]
      mn_star_vec == [b \in 1..B |-> SeqMin(mhat_star_clip[b])]
      vec_1 == [b \in 1..B |-> [j \in 1..k |->
                  ScaleSqrtN(n, mhat_star_vec[b][j] - mn_star_vec[b])]]
      vec_2 == [b \in 1..B |-> [j \in 1..k |-> ScaleSqrtN(n, mhat_star_vec[b][j])]]
      vec_3 == [b \in 1..B |-> [j \in 1..k |->
                  ScaleSqrtN(n, mn_star_vec[b] - mhat_star_clip[b][j])]]
  IN << [j \in 1..k |-> ClipMinIota(Std(Column(vec_1, j)))],
        [j \in 1..k |-> ClipMinIota(Std(Column(vec_2, j)))],
        [j \in 1..k |-> ClipMinIota(Std(Column(vec_3, j)))] >>

std_b_vec(X, bootstrap_replications, rng_seed, bootstrap_indices, g) ==
  LET n == Len(X)
      o == ObtainIndices(n, bootstrap_replications, rng_seed, bootstrap_indices, g)
  IN IF o.err # ""
     THEN [err |-> o.err, out |-> <<>>, rng |-> o.rng, used |-> <<>>]
     ELSE [err |-> "", out |-> StdRows(n, m_hat_star(X, o.idx)),
           rng |-> o.rng, used |-> <<o.idx>>]

(* ---------------- shared pieces ---------------- *)
(* (num / den) > 1 as numpy evaluates it, num and den scaled alike: a zero
   denominator gives +inf, nan or -inf, of which only +inf exceeds 1 *)
GtOne(num, den) ==
  IF den > 0 THEN num > den
  ELSE IF den = 0 THEN num > 0
  ELSE num < den

(* -1 * m_hat0.clip(max=0) *)
RHatVec(m_hat0) == [j \in 1..Len(m_hat0) |-> -ClipMax0(m_hat0[j])]

(* ---------------- tn_star ---------------- *)
(* variant: the worst violation r_hat is left out of the slack *)
tn_xi_gt_one_without_r_hat(n, m_hat0, r_hat, std_b1, kappa_n, j) ==
  GtOne(ScaleSqrtN(n, m_hat0[j]) * Hundred, std_b1[j] * kappa_n)

(* xi_n > 1, entry j *)
tn_xi_gt_one(n, m_hat0, r_hat, std_b1, kappa_n, j) ==
  GtOne(ScaleSqrtN(n, m_hat0[j] + r_hat) * Hundred, std_b1[j] * kappa_n)

tn_phi_n(n, m_hat0, r_hat, std_b1, kappa_n) ==
  [j \in 1..Len(m_hat0) |->
     IF tn_xi_gt_one(n, m_hat0, r_hat, std_b1, kappa_n, j) THEN Inf ELSE 0]

tn_star(X, std_b1, kappa_n, bootstrap_replications, rng_seed, bootstrap_indices, g) ==
  LET n == Len(X)
      o == ObtainIndices(n, bootstrap_replications, rng_seed, bootstrap_indices, g)
      m_hat0 == m_hat(X)
      r_hat == SeqMax(RHatVec(m_hat0))
      phi_n == tn_phi_n(n, m_hat0, r_hat, std_b1, kappa_n)
      ms == m_hat_star(X, o.idx)
  IN IF o.err # ""
     THEN [err |-> o.err, out |-> <<>>, rng |-> o.rng, used |-> <<>>]
     ELSE [err |-> "",
           out |-> [b \in 1..Len(o.idx) |-> [j \in 1..NCols(X) |->
                      Add(ScaleSqrtN(n, ms[b][j] - m_hat0[j]), phi_n[j])]],
           rng |-> o.rng, used |-> <<o.idx>>]

(* ---------------- an_star ---------------- *)
(* (r_hat_vec >= r_hat0 - std_b3 * kappa_n / sqrt(n)).nonzero()[0], ascending *)
RECURSIVE hat_j_r_from(_, _, _, _, _, _)
hat_j_r_from(j, n, r_hat_vec, r_hat0, std_b3, kappa_n) ==
  IF j > Len(r_hat_vec) THEN <<>>
  ELSE (IF (r_hat0 - r_hat_vec[j]) * SqrtN(n) <= std_b3[j] * kappa_n
        THEN <<j>> ELSE <<>>)
       \o hat_j_r_from(j + 1, n, r_hat_vec, r_hat0, std_b3, kappa_n)

an_hat_b(n, r_hat_vec, hat_r_inf, std_b3, kappa_n) ==
  [j \in 1..Len(r_hat_vec) |->
     ScaleSqrtN(n, r_hat_vec[j] - hat_r_inf) - ((std_b3[j] * kappa_n) \div Hundred)]

an_phi_n(n, r_hat_vec, hat_r_inf, std_b3, kappa_n) ==
  [j \in 1..Len(r_hat_vec) |->
     IF GtOne(ScaleSqrtN(n, r_hat_vec[j] - hat_r_inf) * Hundred, std_b3[j] * kappa_n)
     THEN Inf ELSE 0]

an_hat_hi_star(n, X, idx, m_hat0, std_b2, kappa_n) ==
  LET ms == m_hat_star(X, idx)
  IN [b \in 1..Len(idx) |-> [j \in 1..NCols(X) |->
       LET vstar == ScaleSqrtN(n, ms[b][j] - m_hat0[j])
           pm == IF vstar >= 0 THEN -1 ELSE 1
           base == ScaleSqrtN(n, m_hat0[j]) + pm * ((std_b2[j] * kappa_n) \div Hundred)
       IN (-ClipMax0(base + vstar)) - (-ClipMax0(base))]]

RowMax(hat_b, hat_hi_star) ==
  [b \in 1..Len(hat_hi_star) |->
     SeqMax([j \in 1..Len(hat_b) |-> Add(hat_b[j], hat_hi_star[b][j])])]

(* the loop over hat_j_r: hat_bnew is another name for the array hat_b, so
   the assignment hat_bnew[j] = phi_n[j] is an assignment to hat_b *)
RECURSIVE an_loop(_, _, _, _)
an_loop(hat_b, phi_n, hat_hi_star, js) ==
  IF js = <<>> THEN <<>>
  ELSE LET j == Head(js)
           hat_bnew == [hat_b EXCEPT ![j] = phi_n[j]]
       IN <<RowMax(hat_bnew, hat_hi_star)>>
          \o an_loop(hat_bnew, phi_n, hat_hi_star, Tail(js))

(* variant: the maximum across the columns *)
MaxAcrossColumns(cols, B) ==
  [b \in 1..B |-> SeqMax([i \in 1..Len(cols) |-> cols[i][b]])]

(* np.min(aux_vec2, axis=1), aux_vec2 given as its sequence of columns *)
MinAcrossColumns(cols, B) ==
  [b \in 1..B |-> SeqMin([i \in 1..Len(cols) |-> cols[i][b]])]

an_star(X, std_b2, std_b3, kappa_n, hat_r_inf, bootstrap_replications, rng_seed, bootstrap_indices, g) ==
  LET n == Len(X)
      o == ObtainIndices(n, bootstrap_replications, rng_seed, bootstrap_indices, g)
      m_hat0 == m_hat(X)
      r_hat_vec == RHatVec(m_hat0)
      r_hat0 == SeqMax(r_hat_vec)
      hat_j_r == hat_j_r_from(1, n, r_hat_vec, r_hat0, std_b3, kappa_n)
      hat_b == an_hat_b(n, r_hat_vec, hat_r_inf, std_b3, kappa_n)
      phi_n == an_phi_n(n, r_hat_vec, hat_r_inf, std_b3, kappa_n)
      hat_hi_star == an_hat_hi_star(n, X, o.idx, m_hat0, std_b2, kappa_n)
      aux_vec2 == an_loop(hat_b, phi_n, hat_hi_star, hat_j_r)
  IN IF o.err # ""
     THEN [err |-> o.err, out |-> <<>>, rng |-> o.rng, used |-> <<>>]
     ELSE IF hat_j_r = <<>>
     THEN [err |-> ZeroSizeError, out |-> <<>>, rng |-> o.rng, used |-> <<o.idx>>]
     ELSE [err |-> "", out |-> MinAcrossColumns(aux_vec2, Len(o.idx)),
           rng |-> o.rng, used |-> <<o.idx>>]

(* ---------------- cvalue_SPUR1 ---------------- *)
RECURSIVE Insert(_, _)
Insert(x, s) ==
  IF s = <<>> THEN <<x>>
  ELSE IF x <= Head(s) THEN <<x>> \o s
  ELSE <<Head(s)>> \o Insert(x, Tail(s))

RECURSIVE Sort(_)
Sort(s) == IF s = <<>> THEN <<>> ELSE Insert(Head(s), Sort(Tail(s)))

(* numpy's _lerp(a, b, t) with t in hundredths *)
Lerp(a, b, t) ==
  IF t >= 50 THEN b - (((b - a) * (Hundred - t)) \div Hundred)
  ELSE a + (((b - a) * t) \div Hundred)

(* variant: numpy's default, linear interpolation *)
Quantile_linear(x, q) ==
  LET N == Len(x)
      arr == Sort(x)
      previous == ((N - 1) * q) \div Hundred
      next == Min2(previous + 1, N - 1)
      gamma == ((N - 1) * q) % Hundred
  IN Lerp(arr[previous + 1], arr[next + 1], gamma)

(* np.quantile(x, q, interpolation="midpoint"), q in hundredths: the virtual
   index is the midpoint of floor and ceil of (n - 1) q, the two neighbours
   are interpolated with weight one half (zero on an integer index) *)
Quantile(x, q) ==
  LET N == Len(x)
      arr == Sort(x)
      fl == ((N - 1) * q) \div Hundred
      ce == -((-((N - 1) * q)) \div Hundred)
      twice_virtual == fl + ce
      previous == twice_virtual \div 2
      next == Min2(previous + 1, N - 1)
      gamma == IF twice_virtual % 2 = 0 THEN 0 ELSE 50
  IN Lerp(arr[previous + 1], arr[next + 1], gamma)

sn_star(tn_vec, An) ==
  [b \in 1..Len(tn_vec) |->
     SeqMax([j \in 1..Len(tn_vec[b]) |-> -ClipMax0(Add(tn_vec[b][j], An[b]))])]

(* variant: the quantile is taken at alpha instead of 1 - alpha *)
cvalue_SPUR1_at_alpha(X, alpha, An, bootstrap_replications, rng_seed, bootstrap_indices, g) ==
  LET n == Len(X)
      kappa_n == KappaN(n)
      std_b0 == std_b_vec(X, bootstrap_replications, rng_seed, bootstrap_indices, g)
      tn_vec == tn_star(X, std_b0.out[1], kappa_n,
                        bootstrap_replications, rng_seed, bootstrap_indices, std_b0.rng)
  IN IF std_b0.err # ""
     THEN [err |-> std_b0.err, out |-> <<>>, rng |-> std_b0.rng, used |-> <<>>]
     ELSE [err |-> "",
           out |-> <<Quantile(sn_star(tn_vec.out, An), alpha)>>,
           rng |-> tn_vec.rng, used |-> std_b0.used \o tn_vec.used]

cvalue_SPUR1(X, alpha, An, bootstrap_replications, rng_seed, bootstrap_indices, g) ==
  LET n == Len(X)
      kappa_n == KappaN(n)
      std_b0 == std_b_vec(X, bootstrap_replications, rng_seed, bootstrap_indices, g)
      tn_vec == tn_star(X, std_b0.out[1], kappa_n,
                        bootstrap_replications, rng_seed, bootstrap_indices, std_b0.rng)
  IN IF std_b0.err # ""
     THEN [err |-> std_b0.err, out |-> <<>>, rng |-> std_b0.rng, used |-> <<>>]
     ELSE [err |-> "",
           out |-> <<Quantile(sn_star(tn_vec.out, An), Hundred - alpha)>>,
           rng |-> tn_vec.rng, used |-> std_b0.used \o tn_vec.used]

(* ---------------- an_vec ---------------- *)
(* MomentSource: the moment matrix at a two-entry theta *)
m_function(W, theta) ==
  [i \in 1..Len(W) |-> [j \in 1..NCols(W) |->
     -(W[i][j] + (IF j = 1 THEN Hundred * (theta[1] - theta[2]) ELSE 0))]]

Negate(M) == [i \in 1..Len(M) |-> [j \in 1..NCols(M) |-> -M[i][j]]]

(* (aux1_var <= tau_n / sqrt(n)) | (aux1_var == 1), aux1_var in hundredths *)
boole_of_interest(n, aux) ==
  LET tau_n == KappaN(n)
  IN (aux * SqrtN(n) <= tau_n * Hundred) \/ (aux = Hundred)

RECURSIVE theta_of_interest(_, _, _)
theta_of_interest(n, aux1_var, theta_grid) ==
  IF theta_grid = <<>> THEN <<>>
  ELSE (IF boole_of_interest(n, Head(aux1_var)) THEN <<Head(theta_grid)>> ELSE <<>>)
       \o theta_of_interest(n, Tail(aux1_var), Tail(theta_grid))

(* the loop over theta_of_interest; yields the columns of an_mat *)
RECURSIVE an_vec_loop(_, _, _, _, _, _, _, _, _)
an_vec_loop(ts, W, grid0, kappa_n, hat_r_inf, bootstrap_replications, rng_seed, bootstrap_indices, g) ==
  IF ts = <<>> THEN [err |-> "", cols |-> <<>>, rng |-> g, used |-> <<>>]
  ELSE LET the_theta == [[d \in 1..2 |-> 0] EXCEPT ![grid0] = Head(ts)]
           X == Negate(m_function(W, the_theta))
           b0_vec == std_b_vec(X, bootstrap_replications, rng_seed, bootstrap_indices, g)
           a == an_star(X, b0_vec.out[2], b0_vec.out[3], kappa_n, hat_r_inf,
                        bootstrap_replications, rng_seed, bootstrap_indices, b0_vec.rng)
           rest == an_vec_loop(Tail(ts), W, grid0, kappa_n, hat_r_inf,
                               bootstrap_replications, rng_seed, bootstrap_indices, a.rng)
       IN IF b0_vec.err # ""
          THEN [err |-> b0_vec.err, cols |-> <<>>, rng |-> b0_vec.rng, used |-> <<>>]
          ELSE IF a.err # ""
          THEN [err |-> a.err, cols |-> <<>>, rng |-> a.rng, used |-> b0_vec.used \o a.used]
          ELSE [err |-> rest.err, cols |-> <<a.out>> \o rest.cols, rng |-> rest.rng,
                used |-> b0_vec.used \o a.used \o rest.used]

an_vec(aux1_var, hat_r_inf, W, theta_grid, grid0, bootstrap_replications, rng_seed, bootstrap_indices, g) ==
  LET n == Len(W)
      kappa_n == KappaN(n)
      ts == theta_of_interest(n, aux1_var, theta_grid)
      BB == IF bootstrap_indices = None THEN bootstrap_replications
            ELSE <<Len(bootstrap_indices[1])>>
      l == an_vec_loop(ts, W, grid0, kappa_n, hat_r_inf,
                       bootstrap_replications, rng_seed, bootstrap_indices, g)
  IN IF BB = None
     THEN [err |-> NoneShapeError, out |-> <<>>, rng |-> g, used |-> <<>>]
     ELSE IF l.err # ""
     THEN [err |-> l.err, out |-> <<>>, rng |-> l.rng, used |-> l.used]
     ELSE IF l.cols = <<>>
     THEN [err |-> ZeroSizeError, out |-> <<>>, rng |-> l.rng, used |-> l.used]
     ELSE [err |-> "", out |-> MinAcrossColumns(l.cols, BB[1]),
           rng |-> l.rng, used |-> l.used]

(* ---------------- inputs ---------------- *)
FnNames == {"std_b_vec", "tn_star", "an_star", "an_vec", "cvalue_SPUR1"}

(* columns of a moment matrix: strictly positive, constant negative,
   rising through zero *)
ColEntry(p, i) ==
  CASE p = 0 -> i * Hundred
    [] p = 1 -> -2 * Hundred
    [] OTHER -> (2 * i - 3) * Hundred

(* moment matrices: column j has pattern c + d (j - 1) *)
XOf(c, d) == [i \in 1..NObs |-> [j \in 1..KMom |-> ColEntry((c + d * (j - 1)) % 3, i)]]

XSet == { XOf(c, d) : c \in 0..2, d \in 0..2 }

(* the data an_vec hands to MomentSource: columns of different patterns *)
WSet == { XOf(c, 2) : c \in 0..2 }

(* rows of an index matrix: the sample itself, the first observation only,
   the last observation only, the sample reversed *)
RowEntry(p, i) ==
  CASE p = 0 -> i - 1
    [] p = 1 -> 0
    [] p = 2 -> NObs - 1
    [] OTHER -> NObs - i

(* index matrices: row b has pattern a + d b *)
IdxOf(a, d) == [b \in 1..MaxB |-> [i \in 1..NObs |-> RowEntry((a + d * b) % 4, i)]]

IdxSet == { IdxOf(a, d) : a \in 0..1, d \in 0..1 }

ConstVec(v) == [j \in 1..KMom |-> v]

(* bootstrap configurations: bootstrap_indices given or not,
   bootstrap_replications and rng_seed given or None *)
Configs ==
  { [idx |-> TRUE,  reps |-> None,     seed |-> None],
    [idx |-> TRUE,  reps |-> <<MaxB>>, seed |-> <<1>>],
    [idx |-> FALSE, reps |-> <<MaxB>>, seed |-> <<1>>],
    [idx |-> FALSE, reps |-> <<MaxB>>, seed |-> None],
    [idx |-> FALSE, reps |-> None,     seed |-> None],
    [idx |-> FALSE, reps |-> None,     seed |-> <<1>>] }

(* configurations under which the per-call argument is varied as well *)
VaryConfigs == { c \in Configs : c.idx /\ c.reps = None }

Alphas == {10, 50, 75}

AnSet == { [b \in 1..MaxB |-> 0], [b \in 1..MaxB |-> -Hundred * b] }

theta_grid == <<1, 2>>

AuxSet == { <<0, 90>>, <<Hundred, 0>>, <<90, 90>> }

(* sub-grids of theta_grid, as the increasing positions kept *)
Masks == { <<>>, <<1>>, <<2>>, <<1, 2>> }

Pick(s, m) == [i \in 1..Len(m) |-> s[m[i]]]

(* the scaling rows a caller passes on: computed from the data by
   std_b_vec, or a given constant vector *)
ScalingOf(X, idx, sel) ==
  IF sel = 0 THEN std_b_vec(X, None, None, <<idx>>, 0).out
  ELSE <<ConstVec(3 * Hundred), ConstVec(3 * Hundred), ConstVec(3 * Hundred)>>

ParSet(f, X, idx) ==
  CASE f = "std_b_vec" -> { [none |-> 0] }
    [] f = "tn_star" ->
         { [std_b1 |-> ScalingOf(X, idx, c[1])[1], kappa_n |-> c[2] * KappaN(NObs)] :
             c \in { <<0, 1>>, <<1, 1>>, <<0, 2>> } }
    [] f = "an_star" ->
         { [std_b2 |-> ScalingOf(X, idx, sel)[2], std_b3 |-> ScalingOf(X, idx, sel)[3],
            kappa_n |-> KappaN(NObs), hat_r_inf |-> r] :
             sel \in 0..1, r \in {0, Hundred} }
    [] f = "cvalue_SPUR1" -> { [an_vec |-> a] : a \in AnSet }
    [] OTHER ->
         { [aux1_var |-> a, hat_r_inf |-> 0, grid0 |-> IF idx = IdxOf(1, 1) THEN 2 ELSE 1] : a \in AuxSet }

(* ---------------- the state machine ---------------- *)
NoCall == [called |-> FALSE, cfg |-> [idx |-> FALSE, reps |-> None, seed |-> None],
           arg |-> <<>>, err |-> "", out |-> <<>>, used |-> <<>>]

InitFor(F) ==
  /\ fn \in F
  /\ X_data \in (IF fn = "an_vec" THEN WSet ELSE XSet)
  /\ bidx \in (IF fn = "an_vec" THEN { IdxOf(0, 0), IdxOf(0, 1), IdxOf(1, 1) } ELSE IdxSet)
  /\ par \in ParSet(fn, X_data, bidx)
  /\ rng \in RngStates
  /\ last = NoCall

Init == InitFor(FnNames)

IdxArg(cfg) == IF cfg.idx THEN <<bidx>> ELSE None

Record(cfg, arg, r) ==
  /\ last' = [called |-> TRUE, cfg |-> cfg, arg |-> arg,
              err |-> r.err, out |-> r.out, used |-> r.used]
  /\ rng' = r.rng
  /\ UNCHANGED <<fn, X_data, bidx, par>>

Call_std_b_vec(cfg) ==
  /\ fn = "std_b_vec"
  /\ \E r \in {std_b_vec(X_data, cfg.reps, cfg.seed, IdxArg(cfg), rng)} :
       Record(cfg, <<>>, r)

Call_tn_star(cfg) ==
  /\ fn = "tn_star"
  /\ \E r \in {tn_star(X_data, par.std_b1, par.kappa_n,
                      cfg.reps, cfg.seed, IdxArg(cfg), rng)} :
       Record(cfg, <<>>, r)

Call_an_star(cfg) ==
  /\ fn = "an_star"
  /\ \E r \in {an_star(X_data, par.std_b2, par.std_b3, par.kappa_n, par.hat_r_inf,
                      cfg.reps, cfg.seed, IdxArg(cfg), rng)} :
       Record(cfg, <<>>, r)

Call_cvalue_SPUR1(cfg, alpha) ==
  /\ fn = "cvalue_SPUR1"
  /\ \E r \in {cvalue_SPUR1(X_data, alpha, par.an_vec,
                           cfg.reps, cfg.seed, IdxArg(cfg), rng)} :
       Record(cfg, <<alpha>>, r)

Call_an_vec(cfg, mask) ==
  /\ fn = "an_vec"
  /\ \E r \in {an_vec(Pick(par.aux1_var, mask), par.hat_r_inf, X_data,
                     Pick(theta_grid, mask), par.grid0,
                     cfg.reps, cfg.seed, IdxArg(cfg), rng)} :
       Record(cfg, mask, r)

CvalueCalls == (Configs \X {50}) \cup (VaryConfigs \X Alphas)

AnVecCalls == (Configs \X {<<1, 2>>}) \cup (VaryConfigs \X Masks)

Next_std_b_vec == \E cfg \in Configs : Call_std_b_vec(cfg)

Next_tn_star == \E cfg \in Configs : Call_tn_star(cfg)

Next_an_star == \E cfg \in Configs : Call_an_star(cfg)

Next_cvalue_SPUR1 == \E c \in CvalueCalls : Call_cvalue_SPUR1(c[1], c[2])

Next_an_vec == \E c \in AnVecCalls : Call_an_vec(c[1], c[2])

Next ==
  \/ Next_std_b_vec
  \/ Next_tn_star
  \/ Next_an_star
  \/ Next_cvalue_SPUR1
  \/ Next_an_vec

Spec == Init /\ [][Next]_vars

(* one function at a time *)
SpecStd == InitFor({"std_b_vec"}) /\ [][Next_std_b_vec]_vars

SpecTn == InitFor({"tn_star"}) /\ [][Next_tn_star]_vars

SpecAnStar == InitFor({"an_star"}) /\ [][Next_an_star]_vars

SpecCvalue == InitFor({"cvalue_SPUR1"}) /\ [][Next_cvalue_SPUR1]_vars

SpecAnVec == InitFor({"an_vec"}) /\ [][Next_an_vec]_vars

(* ======================= properties ======================= *)
Range(q) == { q[i] : i \in DOMAIN q }

Ok == last.called /\ last.err = ""

Neither(cfg) == ~cfg.idx /\ cfg.reps = None

(* C1: every bootstrap-based function called with neither
   bootstrap_replications nor bootstrap_indices fails with the configuration
   error, before any resampling, and with no other error in its place. *)
C1_ConfigErrorFirst ==
  (last.called /\ Neither(last.cfg)) => (last.err = ConfigError /\ last.used = <<>>)

(* C2: with an explicit bootstrap_indices matrix the result is determined by
   the data arguments and that matrix alone: the generator is left untouched,
   every resampling step uses the supplied matrix, and two calls with the
   same data return the same output whatever bootstrap_replications and
   rng_seed are. *)
C2_ExplicitIndicesAuthoritative ==
  [][ (last'.called /\ last'.cfg.idx) =>
        /\ rng' = rng
        /\ \A i \in DOMAIN last'.used : last'.used[i] = bidx
        /\ (last.called /\ last.cfg.idx /\ last.arg = last'.arg) =>
              (last'.err = last.err /\ last'.out = last.out) ]_vars

C2_Witness ==
  /\ Ok /\ last.cfg.idx /\ last.cfg.reps # None /\ last.cfg.seed # None
  /\ fn = "an_vec" /\ Len(last.used) = 4
  /\ rng # Seed(last.cfg.seed[1])
  /\ bidx # Randint(Seed(last.cfg.seed[1]), MaxB, NObs)

(* C3: each entry of the 3-by-k matrix returned by std_b_vec is at least
   iota, and an entry whose bootstrap standard deviation is zero equals
   exactly iota: row 2 in a column whose resamples all give the same
   aggregate, and every row when all resamples give the same aggregates. *)
C3_ms == m_hat_star(X_data, last.used[1])

C3_FlooredAtIota ==
  (Ok /\ fn = "std_b_vec") =>
     /\ Len(last.out) = 3
     /\ \A r \in 1..3 :
          /\ Len(last.out[r]) = KMom
          /\ \A j \in 1..KMom : last.out[r][j] >= Iota
     /\ \A j \in 1..KMom :
          (\A b \in DOMAIN C3_ms : C3_ms[b][j] = C3_ms[1][j]) => last.out[2][j] = Iota
     /\ (\A b \in DOMAIN C3_ms : C3_ms[b] = C3_ms[1]) =>
          \A r \in 1..3, j \in 1..KMom : last.out[r][j] = Iota

C3_Witness ==
  /\ Ok /\ fn = "std_b_vec"
  /\ \E j \in 1..KMom :
       /\ \A b \in DOMAIN C3_ms : C3_ms[b][j] = C3_ms[1][j]
       /\ last.out[2][j] = Iota
  /\ \E r \in 1..3, j \in 1..KMom : last.out[r][j] > Iota

(* C4: with the data and the bootstrap index matrix held fixed, an_vec on a
   wider grid is entrywise at most an_vec on a narrower grid. *)
C4_WiderGridLowers ==
  [][ ( /\ fn = "an_vec"
        /\ last.called /\ last.err = "" /\ last.cfg.idx
        /\ last'.called /\ last'.err = "" /\ last'.cfg.idx ) =>
        /\ (Range(last.arg) \subseteq Range(last'.arg)) =>
              \A b \in DOMAIN last.out : last'.out[b] <= last.out[b]
        /\ (Range(last'.arg) \subseteq Range(last.arg)) =>
              \A b \in DOMAIN last.out : last.out[b] <= last'.out[b] ]_vars

C4_narrow(m) ==
  an_vec(Pick(par.aux1_var, m), par.hat_r_inf, X_data, Pick(theta_grid, m), par.grid0,
         None, None, <<bidx>>, rng)

C4_Witness ==
  /\ Ok /\ fn = "an_vec" /\ last.cfg.idx /\ last.arg = <<1, 2>>
  /\ \E m \in {<<1>>, <<2>>} :
       /\ C4_narrow(m).err = ""
       /\ \E b \in DOMAIN last.out : last.out[b] < C4_narrow(m).out[b]

(* C5: cvalue_SPUR1 returns the (1 - alpha) quantile of sn_star under
   midpoint interpolation: the average (rounded to the quantum) of the order
   statistics of sn_star at floor(h) and ceil(h), h = (B - 1)(1 - alpha),
   where sn_star[b] = max over j of -min(tn_star[b, j] + An[b], 0). *)
C5_tn ==
  tn_star(X_data, std_b_vec(X_data, None, None, <<last.used[1]>>, 0).out[1],
          KappaN(NObs), None, None, <<last.used[2]>>, 0).out

C5_sn ==
  [b \in DOMAIN C5_tn |->
     SeqMax([j \in 1..KMom |->
        LET t == IF C5_tn[b][j] = Inf \/ par.an_vec[b] = Inf THEN Inf
                 ELSE C5_tn[b][j] + par.an_vec[b]
        IN IF t < 0 THEN -t ELSE 0])]

(* the order statistic of rank r (from 0) *)
C5_OrderStat(v, r) ==
  CHOOSE x \in Range(v) :
    /\ Cardinality({b \in DOMAIN v : v[b] < x}) <= r
    /\ r < Cardinality({b \in DOMAIN v : v[b] <= x})

C5_h == (Len(C5_sn) - 1) * (Hundred - last.arg[1])

C5_lo == C5_OrderStat(C5_sn, C5_h \div Hundred)

C5_hi == C5_OrderStat(C5_sn, (C5_h + Hundred - 1) \div Hundred)

C5_MidpointQuantile ==
  (Ok /\ fn = "cvalue_SPUR1") =>
     /\ Len(last.out) = 1
     /\ 2 * last.out[1] - (C5_lo + C5_hi) \in {0, 1}

C5_Witness ==
  /\ Ok /\ fn = "cvalue_SPUR1"
  /\ C5_h % Hundred # 0
  /\ C5_hi - C5_lo >= Hundred
  /\ last.out[1] > C5_lo /\ last.out[1] < C5_hi

(* C6: for fixed X_data, An and bootstrap index matrix the critical value
   is non-increasing in alpha. *)
C6_NonIncreasingInAlpha ==
  [][ ( /\ fn = "cvalue_SPUR1"
        /\ last.called /\ last.err = "" /\ last.cfg.idx
        /\ last'.called /\ last'.err = "" /\ last'.cfg.idx ) =>
        /\ (last.arg[1] < last'.arg[1]) => last.out[1] >= last'.out[1]
        /\ (last.arg[1] > last'.arg[1]) => last.out[1] <= last'.out[1] ]_vars

C6_Witness ==
  /\ Ok /\ fn = "cvalue_SPUR1" /\ last.cfg.idx /\ last.arg = <<75>>
  /\ last.out[1] < cvalue_SPUR1(X_data, 10, par.an_vec, None, None, <<bidx>>, rng).out[1]

(* C7 as stated: in tn_star a column of X_data that is strictly positive in
   every row has phi_n = +infinity, so the returned matrix is +infinity in
   that column for every bootstrap replication. *)
C7_PositiveColumnInfinite ==
  (Ok /\ fn = "tn_star") =>
     \A j \in 1..KMom :
        (\A i \in 1..NObs : X_data[i][j] > 0) =>
           \A b \in DOMAIN last.out : last.out[b][j] = Inf

C7_m_hat0 == [j \in 1..KMom |-> SeqMin(Column(X_data, j))]

C7_r_hat == Max2(0, -SeqMin(C7_m_hat0))

C7_slack(j) == (SqrtN(NObs) * (C7_m_hat0[j] + C7_r_hat)) \div Hundred

(* C7 as amended: the returned matrix is +infinity in column j, for every
   bootstrap replication, exactly when
   xi_n[j] = sqrt(n)(m_hat0[j] + r_hat)/(std_b1[j] kappa_n) > 1, and finite
   there otherwise; a strictly positive column is not enough. *)
C7_InfiniteIffXiAboveOne ==
  (Ok /\ fn = "tn_star") =>
     \A b \in DOMAIN last.out : \A j \in 1..KMom :
        (last.out[b][j] = Inf) <=>
           (C7_slack(j) * Hundred > par.std_b1[j] * par.kappa_n)

C7_Witness ==
  /\ Ok /\ fn = "tn_star"
  /\ \E j \in 1..KMom :
       /\ \A i \in 1..NObs : X_data[i][j] > 0
       /\ \A b \in DOMAIN last.out : last.out[b][j] = Inf
  /\ \E j \in 1..KMom : \A b \in DOMAIN last.out : last.out[b][j] # Inf

(* C8: in an_star the row-wise maximum collected for a near-binding index j
   is taken over hat_b with only entry j replaced by phi_n[j], every other
   entry keeping its original hat_b value. *)
C8_per_index ==
  LET n == NObs
      m_hat0 == m_hat(X_data)
      r_hat_vec == RHatVec(m_hat0)
      hat_j_r == hat_j_r_from(1, n, r_hat_vec, SeqMax(r_hat_vec), par.std_b3, par.kappa_n)
      hat_b == an_hat_b(n, r_hat_vec, par.hat_r_inf, par.std_b3, par.kappa_n)
      phi_n == an_phi_n(n, r_hat_vec, par.hat_r_inf, par.std_b3, par.kappa_n)
      hat_hi_star == an_hat_hi_star(n, X_data, last.used[1], m_hat0, par.std_b2, par.kappa_n)
  IN [b \in DOMAIN last.used[1] |->
        SeqMin([i \in 1..Len(hat_j_r) |->
           RowMax([hat_b EXCEPT ![hat_j_r[i]] = phi_n[hat_j_r[i]]], hat_hi_star)[b]])]

C8_SubstitutionAtIndexOnly ==
  (Ok /\ fn = "an_star") => last.out = C8_per_index

(* C9: within one call of an_vec or cvalue_SPUR1 every resampling step uses
   the same bootstrap index matrix, for every bootstrap configuration the
   call accepts. *)
C9_SameIndicesWithinCall ==
  (last.called /\ fn \in {"an_vec", "cvalue_SPUR1"}) =>
     \A i \in DOMAIN last.used : last.used[i] = last.used[1]

(* C10: an_vec called with a B-row bootstrap index matrix returns a vector
   of exactly B entries, also when the restriction retains no grid point. *)
C10_AlwaysBEntries ==
  (last.called /\ fn = "an_vec" /\ last.cfg.idx) =>
     (last.err = "" /\ Len(last.out) = Len(bidx))

====
